---- MODULE Spec2Model ----
(***************************************************************************)
(* A model of the pubmed-api article store and search service.             *)
(*                                                                         *)
(* Text values (pmid, title, abstract, journal, author names, the query)   *)
(* are sequences of one-character strings, so that lower-casing, SQL LIKE  *)
(* matching, JSON encoding and text comparison are computed character by   *)
(* character.  A Go pointer or slice that may be nil is a set with at most *)
(* one element: {} is nil, {v} holds v.                                    *)
(***************************************************************************)
EXTENDS Integers, Sequences, FiniteSets, TLC

VARIABLES store,   \* the articles table: pmid -> row
          req,     \* the call in progress ([op |-> "none"] between calls)
          resp,    \* the value the call in progress returns
          tx,      \* the open write transaction: its view of the table
          seen,    \* what another connection last read during the load
          loaded,  \* history: pmid -> the article last committed for it
          pool     \* the connections of the database handle

vars == <<store, req, resp, tx, seen, loaded, pool>>

(***************************************************************************)
(* Bounds of the model.                                                    *)
(***************************************************************************)
MaxPage == 2          \* largest page number a caller passes
MaxPageSizeIn == 2    \* largest in-range page_size a caller passes
MaxBatch == 2         \* longest batch handed to InsertArticles
MaxLines == 2         \* most lines of a JSONL data source
MaxCancel == 4        \* most storage operations a cancelled call completes
MaxInFlight == 1      \* most requests in flight beside the one observed

(***************************************************************************)
(* Program constants.                                                      *)
(***************************************************************************)
DefaultPage == 1
DefaultPageSize == 10
MaxPageSize == 50

Nil == {}
Min(a, b) == IF a < b THEN a ELSE b
Max(a, b) == IF a > b THEN a ELSE b

(***************************************************************************)
(* Characters.  Code is the byte value, which SQLite's BINARY collation    *)
(* and Go's string comparison order by.                                    *)
(***************************************************************************)
Code(c) ==
    CASE c = " "  -> 32 [] c = "\"" -> 34 [] c = "%" -> 37 [] c = "'" -> 39
      [] c = ","  -> 44 [] c = "0" -> 48 [] c = "1" -> 49 [] c = "2" -> 50
      [] c = "9"  -> 57 [] c = "A" -> 65 [] c = "B" -> 66 [] c = "C" -> 67
      [] c = "J"  -> 74 [] c = "[" -> 91 [] c = "\\" -> 92 [] c = "]" -> 93
      [] c = "_"  -> 95 [] c = "a" -> 97 [] c = "b" -> 98 [] c = "c" -> 99
      [] c = "j"  -> 106 [] c = "l" -> 108 [] c = "n" -> 110 [] c = "u" -> 117
      [] OTHER -> 0

\* strings.ToLower on one character (the alphabet is ASCII)
ToLowerChar(c) ==
    CASE c = "A" -> "a" [] c = "B" -> "b" [] c = "C" -> "c" [] c = "J" -> "j"
      [] OTHER -> c

\* strings.ToLower
ToLower(s) == [i \in 1..Len(s) |-> ToLowerChar(s[i])]

\* text comparison a < b, byte by byte (BINARY collation)
RECURSIVE TextLess(_, _)
TextLess(a, b) ==
    IF b = <<>> THEN FALSE
    ELSE IF a = <<>> THEN TRUE
    ELSE IF Code(Head(a)) # Code(Head(b)) THEN Code(Head(a)) < Code(Head(b))
    ELSE TextLess(Tail(a), Tail(b))

(***************************************************************************)
(* SQLite's LIKE: '%' matches any run of characters, '_' matches exactly   *)
(* one character, every other character matches itself, ASCII letters      *)
(* without regard to case.                                                 *)
(***************************************************************************)
RECURSIVE Like(_, _)
Like(pat, text) ==
    IF pat = <<>> THEN text = <<>>
    ELSE IF Head(pat) = "%"
         THEN Like(Tail(pat), text) \/ (text # <<>> /\ Like(pat, Tail(text)))
    ELSE /\ text # <<>>
         /\ \/ Head(pat) = "_"
            \/ ToLowerChar(Head(pat)) = ToLowerChar(Head(text))
         /\ Like(Tail(pat), Tail(text))

(***************************************************************************)
(* encoding/json on a []string.                                            *)
(***************************************************************************)
RECURSIVE JsonEscape(_)
JsonEscape(s) ==
    IF s = <<>> THEN <<>>
    ELSE (IF Head(s) \in {"\"", "\\"} THEN <<"\\", Head(s)>> ELSE <<Head(s)>>)
         \o JsonEscape(Tail(s))

JsonString(s) == <<"\"">> \o JsonEscape(s) \o <<"\"">>

RECURSIVE JsonElems(_)
JsonElems(elems) ==
    IF elems = <<>> THEN <<>>
    ELSE IF Len(elems) = 1 THEN JsonString(elems[1])
    ELSE JsonString(Head(elems)) \o <<",">> \o JsonElems(Tail(elems))

\* json.Marshal of a []string: a nil slice encodes as null
JsonMarshal(slice) ==
    IF slice = Nil THEN <<"n", "u", "l", "l">>
    ELSE <<"[">> \o JsonElems(CHOOSE e \in slice : TRUE) \o <<"]">>

\* scans a JSON string whose opening quote is at text[i-1]; acc is the
\* decoded prefix
RECURSIVE JsonScanString(_, _, _)
JsonScanString(text, i, acc) ==
    IF i > Len(text) THEN [ok |-> FALSE, val |-> <<>>, next |-> i]
    ELSE IF text[i] = "\"" THEN [ok |-> TRUE, val |-> acc, next |-> i + 1]
    ELSE IF text[i] = "\\"
         THEN IF i + 1 <= Len(text) /\ text[i + 1] \in {"\"", "\\"}
              THEN JsonScanString(text, i + 2, Append(acc, text[i + 1]))
              ELSE [ok |-> FALSE, val |-> <<>>, next |-> i]
    ELSE JsonScanString(text, i + 1, Append(acc, text[i]))

\* scans the elements of a JSON array; text[i] is where an element starts
RECURSIVE JsonScanElems(_, _, _)
JsonScanElems(text, i, acc) ==
    IF i > Len(text) \/ text[i] # "\"" THEN [ok |-> FALSE, val |-> <<>>]
    ELSE LET s == JsonScanString(text, i + 1, <<>>) IN
         IF ~s.ok \/ s.next > Len(text) THEN [ok |-> FALSE, val |-> <<>>]
         ELSE IF text[s.next] = "]"
              THEN [ok |-> s.next = Len(text), val |-> Append(acc, s.val)]
         ELSE IF text[s.next] = ","
              THEN JsonScanElems(text, s.next + 1, Append(acc, s.val))
         ELSE [ok |-> FALSE, val |-> <<>>]

\* json.Unmarshal into a []string: null leaves the slice nil
JsonUnmarshal(text) ==
    IF text = <<"n", "u", "l", "l">> THEN [ok |-> TRUE, val |-> Nil]
    ELSE IF Len(text) < 2 \/ text[1] # "[" THEN [ok |-> FALSE, val |-> Nil]
    ELSE IF text = <<"[", "]">> THEN [ok |-> TRUE, val |-> {<<>>}]
    ELSE LET r == JsonScanElems(text, 2, <<>>) IN
         [ok |-> r.ok, val |-> IF r.ok THEN {r.val} ELSE Nil]

(***************************************************************************)
(* The articles a loader may hand to InsertArticles.                       *)
(***************************************************************************)
Article(pmid, title, abstract, authors, journal, year) ==
    [PMID |-> pmid, Title |-> title, Abstract |-> abstract,
     Authors |-> authors, Journal |-> journal, PubYear |-> year,
     MeshTerms |-> Nil, DOI |-> <<>>]

Articles ==
    { Article(<<"1">>, <<"c">>, <<"A", "b", " ", "a", "_", "c">>,
              {<<(<<"A", "b">>)>>}, <<"J">>, 2021),
      Article(<<"1">>, <<"c">>, <<"b">>,
              {<<(<<"A", "b">>)>>}, <<"J">>, 2020),
      Article(<<"1", "0">>, <<"A", "b", "c">>, <<>>,
              {<<(<<"b">>), (<<"c">>)>>}, <<"j">>, 2020),
      Article(<<"2">>, <<"a", "%", "b">>, <<"c", "'">>,
              {<<>>}, <<"J">>, 2020),
      Article(<<"9">>, <<"B">>, <<"b">>,
              Nil, <<"J">>, 2021) }

RECURSIVE SeqsUpTo(_, _)
SeqsUpTo(S, n) ==
    IF n = 0 THEN {<<>>}
    ELSE LET shorter == SeqsUpTo(S, n - 1) IN
         shorter \cup {Append(s, x) : s \in {t \in shorter : Len(t) = n - 1}, x \in S}

Batches == SeqsUpTo(Articles, MaxBatch)

(***************************************************************************)
(* The articles table (initSchema) and the bulk load (InsertArticles).     *)
(***************************************************************************)
\* the column values InsertArticles binds for one article
Row(a) ==
    [pmid |-> a.PMID, title |-> a.Title, abstract |-> a.Abstract,
     authors |-> JsonMarshal(a.Authors), journal |-> a.Journal,
     pub_year |-> a.PubYear, mesh_terms |-> JsonMarshal(a.MeshTerms),
     doi |-> a.DOI,
     search_text |-> ToLower(a.Title \o <<" ">> \o a.Abstract)]

\* as Upsert, with INSERT OR IGNORE: the row already stored stays
Upsert_KeepFirst(tbl, row) ==
    [p \in DOMAIN tbl \cup {row.pmid} |-> IF p \in DOMAIN tbl THEN tbl[p] ELSE row]

\* INSERT OR REPLACE: pmid is the primary key
Upsert(tbl, row) ==
    [p \in DOMAIN tbl \cup {row.pmid} |-> IF p = row.pmid THEN row ELSE tbl[p]]

\* the statements of one transaction, in batch order
RECURSIVE ExecBatch(_, _)
ExecBatch(tbl, batch) ==
    IF batch = <<>> THEN tbl
    ELSE ExecBatch(Upsert(tbl, Row(Head(batch))), Tail(batch))

\* the columns a SELECT reads back into a domain.Article
ScanRow(row) ==
    LET au == JsonUnmarshal(row.authors)
        mt == JsonUnmarshal(row.mesh_terms)
    IN [ok |-> au.ok /\ mt.ok,
        article |-> [PMID |-> row.pmid, Title |-> row.title,
                     Abstract |-> row.abstract, Authors |-> au.val,
                     Journal |-> row.journal, PubYear |-> row.pub_year,
                     MeshTerms |-> mt.val, DOI |-> row.doi]]

(***************************************************************************)
(* SQLiteRepository.Search: the WHERE clause.                              *)
(***************************************************************************)
\* "%" + s + "%"
Wrap(s) == <<"%">> \o s \o <<"%">>

QueryClause(f) ==
    IF f.Query # <<>>
    THEN <<[col |-> "search_text", op |-> "LIKE", arg |-> Wrap(ToLower(f.Query))]>>
    ELSE <<>>

YearClause(f) ==
    IF f.Year # Nil
    THEN <<[col |-> "pub_year", op |-> "=", arg |-> CHOOSE y \in f.Year : TRUE]>>
    ELSE <<>>

\* as JournalClause, comparing with LIKE, which ignores the case of letters
JournalClause_Like(f) ==
    IF f.Journal # <<>>
    THEN <<[col |-> "journal", op |-> "LIKE", arg |-> f.Journal]>>
    ELSE <<>>

JournalClause(f) ==
    IF f.Journal # <<>>
    THEN <<[col |-> "journal", op |-> "=", arg |-> f.Journal]>>
    ELSE <<>>

AuthorClause(f) ==
    IF f.Author # <<>>
    THEN <<[col |-> "authors", op |-> "LIKE", arg |-> Wrap(f.Author)]>>
    ELSE <<>>

\* whereClauses, in the order the code appends them
WhereClauses(f) ==
    QueryClause(f) \o YearClause(f) \o JournalClause(f) \o AuthorClause(f)

EvalClause(row, c) ==
    IF c.op = "LIKE" THEN Like(c.arg, row[c.col]) ELSE row[c.col] = c.arg

\* strings.Join(whereClauses, " AND "); no clause at all selects every row
RowMatches(row, clauses) ==
    \A i \in 1..Len(clauses) : EvalClause(row, clauses[i])

MatchingRows(tbl, f) ==
    {tbl[p] : p \in {k \in DOMAIN tbl : RowMatches(tbl[k], WhereClauses(f))}}

\* as CountQuery, counting the rows of the whole table
CountQuery_AllRows(tbl, f) == Cardinality(DOMAIN tbl)

\* SELECT COUNT(*) FROM articles <whereClause>
CountQuery(tbl, f) == Cardinality(MatchingRows(tbl, f))

(***************************************************************************)
(* SQLiteRepository.Search: the ORDER BY clause.  The relevance order      *)
(* writes the lower-cased query into the statement text, between single    *)
(* quotes, so the statement parses only when every quote of the query is   *)
(* doubled; a query with an odd number of quotes leaves a string literal   *)
(* unterminated.                                                           *)
(***************************************************************************)
RECURSIVE QuotesPaired(_)
QuotesPaired(s) ==
    IF s = <<>> THEN TRUE
    ELSE IF Head(s) = "'"
         THEN Len(s) >= 2 /\ s[2] = "'" /\ QuotesPaired(SubSeq(s, 3, Len(s)))
    ELSE QuotesPaired(Tail(s))

\* the value of a string literal whose text is s: '' stands for one quote
RECURSIVE SqlLiteralValue(_)
SqlLiteralValue(s) ==
    IF s = <<>> THEN <<>>
    ELSE IF Head(s) = "'" THEN <<"'">> \o SqlLiteralValue(SubSeq(s, 3, Len(s)))
    ELSE <<Head(s)>> \o SqlLiteralValue(Tail(s))

\* as OrderBy, with the directions of the two year orders exchanged
OrderBy_Exchanged(f) ==
    CASE f.Sort = "year_desc" -> <<"pub_year ASC", "pmid ASC">>
      [] f.Sort = "year_asc" -> <<"pub_year DESC", "pmid ASC">>
      [] f.Sort = "relevance" /\ f.Query # <<>> -> <<"CASE title LIKE", "pmid ASC">>
      [] OTHER -> <<"pmid ASC">>

OrderBy(f) ==
    CASE f.Sort = "year_desc" -> <<"pub_year DESC", "pmid ASC">>
      [] f.Sort = "year_asc" -> <<"pub_year ASC", "pmid ASC">>
      [] f.Sort = "relevance" /\ f.Query # <<>> -> <<"CASE title LIKE", "pmid ASC">>
      [] OTHER -> <<"pmid ASC">>

\* whether the SELECT statement built for f parses
StatementParses(f) ==
    "CASE title LIKE" \in {OrderBy(f)[i] : i \in 1..Len(OrderBy(f))}
        => QuotesPaired(ToLower(f.Query))

\* CASE WHEN title LIKE '%<query>%' THEN 1 ELSE 2 END
TitleBucket(row, f) ==
    IF Like(Wrap(SqlLiteralValue(ToLower(f.Query))), row.title) THEN 1 ELSE 2

\* -1, 0 or 1 as r1 sorts before, with or after r2 under one ORDER BY term
TermCompare(term, r1, r2, f) ==
    CASE term = "pub_year DESC" ->
           IF r1.pub_year > r2.pub_year THEN -1
           ELSE IF r1.pub_year < r2.pub_year THEN 1 ELSE 0
      [] term = "pub_year ASC" ->
           IF r1.pub_year < r2.pub_year THEN -1
           ELSE IF r1.pub_year > r2.pub_year THEN 1 ELSE 0
      [] term = "CASE title LIKE" ->
           IF TitleBucket(r1, f) < TitleBucket(r2, f) THEN -1
           ELSE IF TitleBucket(r1, f) > TitleBucket(r2, f) THEN 1 ELSE 0
      [] OTHER ->
           IF TextLess(r1.pmid, r2.pmid) THEN -1
           ELSE IF TextLess(r2.pmid, r1.pmid) THEN 1 ELSE 0

RECURSIVE RowBefore(_, _, _, _)
RowBefore(r1, r2, terms, f) ==
    IF terms = <<>> THEN FALSE
    ELSE LET c == TermCompare(Head(terms), r1, r2, f) IN
         IF c # 0 THEN c < 0 ELSE RowBefore(r1, r2, Tail(terms), f)

\* the rows of S in ORDER BY order
RECURSIVE OrderRows(_, _)
OrderRows(S, f) ==
    IF S = {} THEN <<>>
    ELSE LET first == CHOOSE r \in S :
                         \A o \in S \ {r} : RowBefore(r, o, OrderBy(f), f)
         IN <<first>> \o OrderRows(S \ {first}, f)

(***************************************************************************)
(* SQLiteRepository.Search: LIMIT ? OFFSET ?                               *)
(***************************************************************************)
\* as Offset, taking the page number for the number of pages to skip
Offset_PageTimesSize(f) == f.Page * f.PageSize

Offset(f) == (f.Page - 1) * f.PageSize
Limit(f) == f.PageSize

\* as LimitOffset, with an offset past the end pulled back to the last rows
LimitOffset_Clamped(rows, limit, offset) ==
    LET from == Min(Max(offset, 0), Max(Len(rows) - 1, 0))
        upto == IF limit < 0 THEN Len(rows) ELSE Min(Len(rows), from + limit)
    IN SubSeq(rows, from + 1, upto)

\* SQLite reads a negative LIMIT as no limit and a negative OFFSET as 0
LimitOffset(rows, limit, offset) ==
    LET from == Max(offset, 0)
        upto == IF limit < 0 THEN Len(rows) ELSE Min(Len(rows), from + limit)
    IN SubSeq(rows, from + 1, upto)

\* SELECT ... FROM articles <whereClause> ORDER BY <orderBy> LIMIT ? OFFSET ?
PageQuery(tbl, f) ==
    LimitOffset(OrderRows(MatchingRows(tbl, f), f), Limit(f), Offset(f))

SearchFailed == [err |-> TRUE, Items |-> <<>>, Page |-> 0, PageSize |-> 0, Total |-> 0]

\* SQLiteRepository.Search
Search(tbl, f) ==
    LET total == CountQuery(tbl, f) IN
    IF ~StatementParses(f) THEN SearchFailed
    ELSE LET rows == PageQuery(tbl, f)
             scanned == [i \in 1..Len(rows) |-> ScanRow(rows[i])]
         IN IF \E i \in 1..Len(rows) : ~scanned[i].ok THEN SearchFailed
            ELSE [err |-> FALSE,
                  Items |-> [i \in 1..Len(rows) |-> scanned[i].article],
                  Page |-> f.Page, PageSize |-> f.PageSize, Total |-> total]

(***************************************************************************)
(* ArticleService.SearchArticles: normalization, then the store's Search.  *)
(***************************************************************************)
validSorts == {"relevance", "year_desc", "year_asc"}

NormalizePage(f) == IF f.Page < 1 THEN [f EXCEPT !.Page = DefaultPage] ELSE f

\* as NormalizePageSize, without the upper clamp
NormalizePageSize_NoClamp(f) ==
    IF f.PageSize < 1 THEN [f EXCEPT !.PageSize = DefaultPageSize] ELSE f

NormalizePageSize(f) ==
    LET g == IF f.PageSize < 1 THEN [f EXCEPT !.PageSize = DefaultPageSize] ELSE f
    IN IF g.PageSize > MaxPageSize THEN [g EXCEPT !.PageSize = MaxPageSize] ELSE g

\* as NormalizeSort, without the allow-list
NormalizeSort_EmptyOnly(f) ==
    IF f.Sort = "" THEN [f EXCEPT !.Sort = "relevance"] ELSE f

NormalizeSort(f) ==
    LET g == IF f.Sort = "" THEN [f EXCEPT !.Sort = "relevance"] ELSE f
    IN IF g.Sort \notin validSorts THEN [g EXCEPT !.Sort = "relevance"] ELSE g

\* as Normalize, lower-casing the query on the way
Normalize_FoldQuery(f) ==
    [NormalizeSort(NormalizePageSize(NormalizePage(f))) EXCEPT !.Query = ToLower(@)]

Normalize(f) == NormalizeSort(NormalizePageSize(NormalizePage(f)))

(***************************************************************************)
(* The filters callers pass.                                               *)
(***************************************************************************)
Queries == {<<>>, <<"a", "b">>, <<"a", "_", "c">>, <<"'">>, <<"B">>}
Years == {Nil, {2020}}
Journals == {<<>>, <<"J">>, <<"j">>}
AuthorFilters == {<<>>, <<"b">>}
Pages == -1..MaxPage
PageSizes == (0..MaxPageSizeIn) \cup {MaxPageSize + 1}
Sorts == {"", "relevance", "year_desc", "year_asc", "newest"}

FilterInputs ==
    [Query : Queries, Year : Years, Journal : Journals, Author : AuthorFilters,
     Page : Pages, PageSize : PageSizes, Sort : Sorts]

(***************************************************************************)
(* ParseSearchFilters: the query parameters of a request (each key with    *)
(* the list of its values, empty when the key is missing) turned into      *)
(* SearchFilters.                                                          *)
(***************************************************************************)
Digits == <<"0", "1", "2", "3", "4", "5", "6", "7", "8", "9">>
IsDigit(c) == \E d \in 1..10 : Digits[d] = c
DigitValue(c) == (CHOOSE d \in 1..10 : Digits[d] = c) - 1

\* the longest run of digits strconv.Atoi reads without a range error, as
\* far as this model goes: 2^63 - 1 has 19 digits
MaxDigits == 18

RECURSIVE DigitsValue(_, _)
DigitsValue(s, acc) ==
    IF s = <<>> THEN acc ELSE DigitsValue(Tail(s), acc * 10 + DigitValue(Head(s)))

\* strconv.Atoi: an optional sign, then decimal digits only
Atoi(s) ==
    LET signed == s # <<>> /\ Head(s) \in {"+", "-"}
        digits == IF signed THEN Tail(s) ELSE s
    IN IF digits = <<>> \/ \E i \in 1..Len(digits) : ~IsDigit(digits[i])
       THEN [ok |-> FALSE, val |-> 0]
       ELSE IF Len(digits) > MaxDigits THEN [ok |-> FALSE, val |-> 0]
       ELSE [ok |-> TRUE,
             val |-> IF signed /\ Head(s) = "-" THEN 0 - DigitsValue(digits, 0)
                     ELSE DigitsValue(digits, 0)]

\* len(v) > 0 && v[0] != ""
Given(values, empty) == Len(values) > 0 /\ values[1] # empty

\* as ParseSearchFilters, taking every page and page_size that parses
ParseSearchFilters_AnyNumber(queryParams) ==
    [Query |-> IF Given(queryParams.q, <<>>) THEN queryParams.q[1] ELSE <<>>,
     Year |-> IF Given(queryParams.year, <<>>) /\ Atoi(queryParams.year[1]).ok
              THEN {Atoi(queryParams.year[1]).val} ELSE Nil,
     Journal |-> IF Given(queryParams.journal, <<>>)
                 THEN queryParams.journal[1] ELSE <<>>,
     Author |-> IF Given(queryParams.author, <<>>)
                THEN queryParams.author[1] ELSE <<>>,
     Page |-> IF Given(queryParams.page, <<>>) /\ Atoi(queryParams.page[1]).ok
              THEN Atoi(queryParams.page[1]).val ELSE DefaultPage,
     PageSize |-> IF /\ Given(queryParams.page_size, <<>>)
                     /\ Atoi(queryParams.page_size[1]).ok
                  THEN Atoi(queryParams.page_size[1]).val ELSE DefaultPageSize,
     Sort |-> IF Given(queryParams.sort, "") THEN queryParams.sort[1]
              ELSE "relevance"]

\* ParseSearchFilters
ParseSearchFilters(queryParams) ==
    [Query |-> IF Given(queryParams.q, <<>>) THEN queryParams.q[1] ELSE <<>>,
     Year |-> IF Given(queryParams.year, <<>>) /\ Atoi(queryParams.year[1]).ok
              THEN {Atoi(queryParams.year[1]).val} ELSE Nil,
     Journal |-> IF Given(queryParams.journal, <<>>)
                 THEN queryParams.journal[1] ELSE <<>>,
     Author |-> IF Given(queryParams.author, <<>>)
                THEN queryParams.author[1] ELSE <<>>,
     Page |-> IF /\ Given(queryParams.page, <<>>)
                 /\ Atoi(queryParams.page[1]).ok
                 /\ Atoi(queryParams.page[1]).val > 0
              THEN Atoi(queryParams.page[1]).val ELSE DefaultPage,
     PageSize |-> IF /\ Given(queryParams.page_size, <<>>)
                     /\ Atoi(queryParams.page_size[1]).ok
                     /\ Atoi(queryParams.page_size[1]).val > 0
                  THEN Atoi(queryParams.page_size[1]).val ELSE DefaultPageSize,
     Sort |-> IF Given(queryParams.sort, "") THEN queryParams.sort[1]
              ELSE "relevance"]

(***************************************************************************)
(* The context a call runs under.  Live is a context that is never         *)
(* cancelled; CancelAfter(k) is cancelled (or past its deadline) once k    *)
(* storage operations of the call have completed, so that the call's n-th  *)
(* storage operation fails with the context's error when k < n.            *)
(***************************************************************************)
Live == {}
CancelAfter(k) == {k}
Done(ctx, n) == \E k \in ctx : k < n

(***************************************************************************)
(* SQLiteRepository.FindByID, ArticleService.GetArticle and the handler of *)
(* GET /v1/articles/{pmid}.                                                *)
(***************************************************************************)
LookupFailed(msg) == [err |-> TRUE, msg |-> msg, article |-> Nil]

\* what a statement finds in a database that has no articles table: every
\* statement on it fails with "no such table: articles"
NoTable == (<<"articles">> :> "no such table")

\* as FindByID, without the test for sql.ErrNoRows
FindByID_NoRowsUnchecked(tbl, pmid, ctx) ==
    IF Done(ctx, 1) THEN LookupFailed("failed to query article")
    ELSE IF pmid \notin DOMAIN tbl
         THEN [err |-> FALSE, msg |-> "",
               article |-> {[PMID |-> <<>>, Title |-> <<>>, Abstract |-> <<>>,
                             Authors |-> Nil, Journal |-> <<>>, PubYear |-> 0,
                             MeshTerms |-> Nil, DOI |-> <<>>]}]
    ELSE [err |-> FALSE, msg |-> "", article |-> {ScanRow(tbl[pmid]).article}]

\* SQLiteRepository.FindByID
FindByID(tbl, pmid, ctx) ==
    IF tbl = NoTable \/ Done(ctx, 1) THEN LookupFailed("failed to query article")
    ELSE IF pmid \notin DOMAIN tbl THEN LookupFailed("article not found")
    ELSE IF ~JsonUnmarshal(tbl[pmid].authors).ok
         THEN LookupFailed("failed to unmarshal authors")
    ELSE IF ~JsonUnmarshal(tbl[pmid].mesh_terms).ok
         THEN LookupFailed("failed to unmarshal mesh terms")
    ELSE [err |-> FALSE, msg |-> "", article |-> {ScanRow(tbl[pmid]).article}]

\* as GetArticle, handing the empty pmid to the store
GetArticle_Unchecked(tbl, pmid, ctx) ==
    [repoCalls |-> 1] @@ FindByID(tbl, pmid, ctx)

\* ArticleService.GetArticle; repoCalls counts the calls that reach the store
GetArticle(tbl, pmid, ctx) ==
    IF pmid = <<>> THEN [repoCalls |-> 0] @@ LookupFailed("pmid is required")
    ELSE [repoCalls |-> 1] @@ FindByID(tbl, pmid, ctx)

\* Handler.GetArticle; serviceCalls counts the calls that reach the service
HandlerGetArticle(tbl, pmid, ctx) ==
    IF pmid = <<>>
    THEN [status |-> 400, error |-> "pmid is required", body |-> Nil,
          serviceCalls |-> 0, repoCalls |-> 0, cause |-> ""]
    ELSE LET r == GetArticle(tbl, pmid, ctx) IN
         IF r.err
         THEN [status |-> 404, error |-> "article not found", body |-> Nil,
               serviceCalls |-> 1, repoCalls |-> r.repoCalls, cause |-> r.msg]
         ELSE [status |-> 200, error |-> "", body |-> r.article,
               serviceCalls |-> 1, repoCalls |-> r.repoCalls, cause |-> ""]

(***************************************************************************)
(* SQLiteRepository.GetStats.  The storage operations are, in order: the   *)
(* top-journals query, one step per journal row, the year query, one step  *)
(* per year row.  A row loop that the context cuts short ends like a loop  *)
(* that ran out of rows: rows.Err() is not consulted.                      *)
(***************************************************************************)
TopJournalsLimit == 5

JournalsOf(tbl) == {tbl[p].journal : p \in DOMAIN tbl}
YearsOf(tbl) == {tbl[p].pub_year : p \in DOMAIN tbl}
JournalCount(tbl, j) == Cardinality({p \in DOMAIN tbl : tbl[p].journal = j})
YearCount(tbl, y) == Cardinality({p \in DOMAIN tbl : tbl[p].pub_year = y})

\* as TopJournalRows, with ORDER BY count ASC
TopJournalRows_Ascending(tbl) ==
    LET n == Cardinality(JournalsOf(tbl))
        orders == {s \in [1..n -> JournalsOf(tbl)] :
                      /\ \A i \in 1..n : \A j \in 1..n : i # j => s[i] # s[j]
                      /\ \A i \in 1..n : \A j \in 1..n :
                            i < j => JournalCount(tbl, s[i]) <= JournalCount(tbl, s[j])}
    IN {SubSeq([i \in 1..n |-> [Journal |-> s[i], Count |-> JournalCount(tbl, s[i])]],
               1, Min(n, TopJournalsLimit)) : s \in orders}

\* the results GROUP BY journal ORDER BY count DESC LIMIT 5 may produce: the
\* order among journals of equal count is the engine's choice
TopJournalRows(tbl) ==
    LET n == Cardinality(JournalsOf(tbl))
        orders == {s \in [1..n -> JournalsOf(tbl)] :
                      /\ \A i \in 1..n : \A j \in 1..n : i # j => s[i] # s[j]
                      /\ \A i \in 1..n : \A j \in 1..n :
                            i < j => JournalCount(tbl, s[i]) >= JournalCount(tbl, s[j])}
    IN {SubSeq([i \in 1..n |-> [Journal |-> s[i], Count |-> JournalCount(tbl, s[i])]],
               1, Min(n, TopJournalsLimit)) : s \in orders}

\* GROUP BY pub_year ORDER BY pub_year
RECURSIVE YearRows(_, _)
YearRows(tbl, years) ==
    IF years = {} THEN <<>>
    ELSE LET y == CHOOSE m \in years : \A o \in years : m <= o
         IN <<[year |-> y, count |-> YearCount(tbl, y)]>> \o YearRows(tbl, years \ {y})

\* the rows of a result set that a loop over rows.Next() scans, the first
\* of them being the call's storage operation number first
Scanned(rows, first, ctx) ==
    SubSeq(rows, 1, Cardinality({i \in 1..Len(rows) : ~Done(ctx, first + i - 1)}))

StatsFailed(msg) ==
    [err |-> TRUE, msg |-> msg, TopJournals |-> <<>>, YearHistogram |-> <<>>]

\* SQLiteRepository.GetStats, journalRows being the engine's answer to the
\* top-journals query
GetStats(tbl, ctx, journalRows) ==
    LET nj == Len(journalRows)
        yearRows == YearRows(tbl, YearsOf(tbl))
        years == Scanned(yearRows, nj + 3, ctx)
    IN IF tbl = NoTable \/ Done(ctx, 1)
       THEN StatsFailed("failed to query top journals")
       ELSE IF Done(ctx, nj + 2) THEN StatsFailed("failed to query year histogram")
       ELSE [err |-> FALSE, msg |-> "",
             TopJournals |-> Scanned(journalRows, 2, ctx),
             YearHistogram |->
                [y \in {years[i].year : i \in 1..Len(years)} |-> YearCount(tbl, y)]]

\* SQLiteRepository.Search under a context: the COUNT(*) statement, the
\* page statement and each row of the page are storage operations, and the
\* loop over the rows is followed by a test of rows.Err()
SearchContext(tbl, f, ctx) ==
    IF tbl = NoTable THEN SearchFailed
    ELSE IF Done(ctx, 2 + Len(PageQuery(tbl, f))) THEN SearchFailed
    ELSE Search(tbl, f)

(***************************************************************************)
(* The page of a request at the width of Go's int on the build's 64-bit    *)
(* targets: a number is four 16-bit limbs, least significant first, in     *)
(* two's complement, and arithmetic wraps modulo 2^64 as Go's does.        *)
(***************************************************************************)
Limb == 65536
SignLimb == 32768
Word(n) == <<n, 0, 0, 0>>

\* x * m + a over the limbs of x from limb i on, the carry out as a last limb
RECURSIVE MulAddFrom(_, _, _, _)
MulAddFrom(x, m, a, i) ==
    IF i > Len(x) THEN <<a>>
    ELSE LET t == x[i] * m + a
         IN <<t % Limb>> \o MulAddFrom(x, m, t \div Limb, i + 1)

\* x * m + a without loss, one limb longer than x
MulAdd(x, m, a) == MulAddFrom(x, m, a, 1)

\* the low 64 bits, which is what a Go int keeps
Wrap64(w) == SubSeq(w, 1, 4)

\* the value is one a non-negative int holds
Fits(w) == w[5] = 0 /\ w[4] < SignLimb

Negative(x) == x[4] >= SignLimb

RECURSIVE SubFrom(_, _, _)
SubFrom(x, borrow, i) ==
    IF i > Len(x) THEN <<>>
    ELSE LET t == x[i] - borrow
         IN IF t < 0 THEN <<t + Limb>> \o SubFrom(x, 1, i + 1)
            ELSE <<t>> \o SubFrom(x, 0, i + 1)

\* x - 1
Sub1(x) == SubFrom(x, 1, 1)

\* the digits of s after acc; a value past 2^63 - 1 is a range error
RECURSIVE WideDigits(_, _)
WideDigits(s, acc) ==
    IF s = <<>> THEN [ok |-> TRUE, val |-> acc]
    ELSE LET w == MulAdd(acc, 10, DigitValue(Head(s)))
         IN IF ~Fits(w) THEN [ok |-> FALSE, val |-> Word(0)]
            ELSE WideDigits(Tail(s), Wrap64(w))

\* strconv.Atoi of the page parameter followed by the test page > 0:
\* the page when the text is a positive int, nothing otherwise
PositivePage(s) ==
    LET signed == s # <<>> /\ Head(s) \in {"+", "-"}
        digits == IF signed THEN Tail(s) ELSE s
    IN IF digits = <<>> \/ \E i \in 1..Len(digits) : ~IsDigit(digits[i])
       THEN Nil
       ELSE LET n == WideDigits(digits, Word(0))
            IN IF ~n.ok \/ n.val = Word(0) \/ (signed /\ Head(s) = "-")
               THEN Nil ELSE {n.val}

\* ParseSearchFilters and SearchArticles on the page parameter
PageOf(values) ==
    IF Given(values, <<>>) /\ PositivePage(values[1]) # Nil
    THEN CHOOSE p \in PositivePage(values[1]) : TRUE
    ELSE Word(DefaultPage)

\* offset := (filters.Page - 1) * filters.PageSize
Offset64(page, pageSize) == Wrap64(MulAdd(Sub1(page), pageSize, 0))

\* the OFFSET SQLite applies: a negative one is 0, and one that does not fit
\* a limb is past the end of every table of this model
SqlOffset(x) ==
    IF Negative(x) THEN 0
    ELSE IF x[2] # 0 \/ x[3] # 0 \/ x[4] # 0 THEN Limb
    ELSE x[1]

\* SQLiteRepository.Search with the page at full width
SearchPage(tbl, f, page) ==
    IF tbl = NoTable \/ ~StatementParses(f) THEN SearchFailed
    ELSE LET rows == LimitOffset(OrderRows(MatchingRows(tbl, f), f), Limit(f),
                                 SqlOffset(Offset64(page, f.PageSize)))
             scanned == [i \in 1..Len(rows) |-> ScanRow(rows[i])]
         IN IF \E i \in 1..Len(rows) : ~scanned[i].ok THEN SearchFailed
            ELSE [err |-> FALSE,
                  Items |-> [i \in 1..Len(rows) |-> scanned[i].article],
                  Page |-> page, PageSize |-> f.PageSize,
                  Total |-> CountQuery(tbl, f)]

(***************************************************************************)
(* The handlers of GET /v1/articles and GET /v1/stats, and the services    *)
(* between them and the store.                                             *)
(***************************************************************************)
\* ArticleService.SearchArticles under a context
SearchArticlesContext(tbl, filters, ctx) == SearchContext(tbl, Normalize(filters), ctx)

\* as HandlerGetArticles, answering a failure with what went wrong
HandlerGetArticles_ErrorText(tbl, queryParams, ctx) ==
    LET filters == ParseSearchFilters(queryParams)
        r == SearchArticlesContext(tbl, filters, ctx)
        cause == IF tbl = NoTable THEN "no such table: articles"
                 ELSE IF ~StatementParses(Normalize(filters)) THEN "syntax error"
                 ELSE "context canceled"
    IN IF r.err
       THEN [status |-> 500, error |-> cause, body |-> Nil, cause |-> cause]
       ELSE [status |-> 200, error |-> "", body |-> {r}, cause |-> ""]

\* Handler.GetArticles; cause is the error the handler logs
HandlerGetArticles(tbl, queryParams, ctx) ==
    LET filters == ParseSearchFilters(queryParams)
        r == SearchArticlesContext(tbl, filters, ctx)
        cause == IF tbl = NoTable THEN "no such table: articles"
                 ELSE IF ~StatementParses(Normalize(filters)) THEN "syntax error"
                 ELSE "context canceled"
    IN IF r.err
       THEN [status |-> 500, error |-> "failed to search articles",
             body |-> Nil, cause |-> cause]
       ELSE [status |-> 200, error |-> "", body |-> {r}, cause |-> ""]

\* Handler.GetStats over ArticleService.GetStats
HandlerGetStats(tbl, ctx, journalRows) ==
    LET r == GetStats(tbl, ctx, journalRows) IN
    IF r.err
    THEN [status |-> 500, error |-> "failed to get stats", body |-> Nil,
          cause |-> r.msg]
    ELSE [status |-> 200, error |-> "", body |-> {r}, cause |-> ""]

(***************************************************************************)
(* The JSONL data and parseJSONL.  A line is empty, or a JSON object given *)
(* by the keys it has and their values, or some other text.                *)
(***************************************************************************)
EmptyLine == [kind |-> "empty"]
OtherText == [kind |-> "text"]
ObjectLine(fields) == [kind |-> "object", fields |-> fields]

\* json.Marshal of a domain.Article: doi has omitempty
Encode(a) ==
    LET always == [pmid |-> a.PMID, title |-> a.Title, abstract |-> a.Abstract,
                   authors |-> a.Authors, journal |-> a.Journal,
                   pub_year |-> a.PubYear, mesh_terms |-> a.MeshTerms]
    IN IF a.DOI = <<>> THEN always ELSE always @@ [doi |-> a.DOI]

Field(fields, key, zero) == IF key \in DOMAIN fields THEN fields[key] ELSE zero

\* json.Unmarshal into a domain.Article: a key the object lacks leaves the
\* field at its zero value
Decode(fields) ==
    [PMID |-> Field(fields, "pmid", <<>>), Title |-> Field(fields, "title", <<>>),
     Abstract |-> Field(fields, "abstract", <<>>),
     Authors |-> Field(fields, "authors", Nil),
     Journal |-> Field(fields, "journal", <<>>),
     PubYear |-> Field(fields, "pub_year", 0),
     MeshTerms |-> Field(fields, "mesh_terms", Nil),
     DOI |-> Field(fields, "doi", <<>>)]

\* as parseJSONL, passing over the lines that do not decode
RECURSIVE parseJSONL_SkipUndecodable(_)
parseJSONL_SkipUndecodable(data) ==
    IF data = <<>> THEN [err |-> FALSE, articles |-> <<>>]
    ELSE LET rest == parseJSONL_SkipUndecodable(Tail(data)) IN
         IF Head(data).kind # "object" THEN rest
         ELSE [err |-> FALSE,
               articles |-> <<Decode(Head(data).fields)>> \o rest.articles]

\* parseJSONL
RECURSIVE parseJSONL(_)
parseJSONL(data) ==
    IF data = <<>> THEN [err |-> FALSE, articles |-> <<>>]
    ELSE IF Head(data).kind = "empty" THEN parseJSONL(Tail(data))
    ELSE IF Head(data).kind # "object" THEN [err |-> TRUE, articles |-> <<>>]
    ELSE LET rest == parseJSONL(Tail(data)) IN
         IF rest.err THEN rest
         ELSE [err |-> FALSE,
               articles |-> <<Decode(Head(data).fields)>> \o rest.articles]

(***************************************************************************)
(* SQLiteRepository.InsertArticles under a context.  Its storage           *)
(* operations are BeginTx (1), PrepareContext (2), one ExecContext per     *)
(* article (3 ..) and Commit; the deferred Rollback discards the           *)
(* transaction's writes on every path that does not commit.                *)
(***************************************************************************)
\* as ExecStmt, with INSERT in place of INSERT OR REPLACE
ExecStmt_Insert(work, a) ==
    IF a.PMID \in DOMAIN work THEN [err |-> TRUE, tbl |-> work]
    ELSE [err |-> FALSE, tbl |-> Upsert(work, Row(a))]

\* stmt.ExecContext for one article, on the transaction's view of the table
ExecStmt(work, a) == [err |-> FALSE, tbl |-> Upsert(work, Row(a))]

\* as Visible, the other connections reading the transaction's writes
Visible_Uncommitted(committed, work) == work

\* the table a connection outside the transaction reads
Visible(committed, work) == committed

WriteFailed(tbl, msg) == [err |-> TRUE, msg |-> msg, tbl |-> tbl]

\* the loop over the articles, from the i-th on
RECURSIVE ExecFrom(_, _, _, _)
ExecFrom(work, articles, i, ctx) ==
    IF i > Len(articles) THEN [err |-> FALSE, tbl |-> work]
    ELSE LET r == ExecStmt(work, articles[i]) IN
         IF Done(ctx, 2 + i) \/ r.err THEN [err |-> TRUE, tbl |-> work]
         ELSE ExecFrom(r.tbl, articles, i + 1, ctx)

\* SQLiteRepository.InsertArticles, start to end
InsertArticlesContext(tbl, articles, ctx) ==
    IF Done(ctx, 1) THEN WriteFailed(tbl, "failed to begin transaction")
    ELSE IF Done(ctx, 2) THEN WriteFailed(tbl, "failed to prepare statement")
    ELSE LET r == ExecFrom(tbl, articles, 1, ctx) IN
         IF r.err THEN WriteFailed(tbl, "failed to insert article")
         ELSE IF Done(ctx, Len(articles) + 3)
              THEN WriteFailed(tbl, "failed to commit transaction")
         ELSE [err |-> FALSE, msg |-> "", tbl |-> r.tbl]

\* LoadArticles, start to end: parseJSONL, then InsertArticles
LoadArticlesResult(tbl, data, ctx) ==
    IF parseJSONL(data).err THEN WriteFailed(tbl, "failed to parse JSONL")
    ELSE LET r == InsertArticlesContext(tbl, parseJSONL(data).articles, ctx) IN
         IF r.err THEN WriteFailed(tbl, "failed to insert articles") ELSE r

(***************************************************************************)
(* The state machine: one call at a time, each call one step, followed by  *)
(* the step that hands its result back.                                    *)
(***************************************************************************)
NoCall == [op |-> "none"]

\* the handle after NewSQLiteRepository: initSchema ran on the one connection
\* sql.Open has made so far, which went back to the idle connections
OneConnection(path) ==
    [path |-> path, serving |-> FALSE, first |-> "idle", idle |-> 0, busy |-> 0]
NoResult == [err |-> FALSE]
NoTx == [open |-> FALSE]
NoRead == [taken |-> FALSE]

\* the history after a transaction over the articles has committed
Committed(hist, articles) ==
    LET pmids == {articles[i].PMID : i \in 1..Len(articles)}
        last(p) == CHOOSE i \in 1..Len(articles) :
                      /\ articles[i].PMID = p
                      /\ \A j \in 1..Len(articles) : articles[j].PMID = p => j <= i
    IN [p \in DOMAIN hist \cup pmids |->
           IF p \in pmids THEN articles[last(p)] ELSE hist[p]]

\* NewSQLiteRepository: an empty articles table
Init ==
    /\ store = <<>>
    /\ req = NoCall
    /\ resp = NoResult
    /\ tx = NoTx
    /\ seen = NoRead
    /\ loaded = <<>>
    /\ pool = OneConnection(":memory:")

\* SQLiteRepository.InsertArticles: one transaction, committed at the end
InsertArticles ==
    /\ req.op = "none"
    /\ \E batch \in Batches :
          /\ store' = ExecBatch(store, batch)
          /\ req' = [op |-> "InsertArticles", articles |-> batch]
          /\ resp' = [err |-> FALSE]
          /\ loaded' = Committed(loaded, batch)
          /\ UNCHANGED <<tx, seen>>
    /\ UNCHANGED pool

\* as SearchArticles, handing the caller's filters to the store as they came
SearchArticles_RawFilters ==
    /\ req.op = "none"
    /\ \E raw \in FilterInputs :
          /\ req' = [op |-> "SearchArticles", raw |-> raw, filters |-> Normalize(raw)]
          /\ resp' = Search(store, raw)
          /\ UNCHANGED <<store, tx, seen, loaded>>
    /\ UNCHANGED pool

\* ArticleService.SearchArticles
SearchArticles ==
    /\ req.op = "none"
    /\ \E raw \in FilterInputs :
          /\ req' = [op |-> "SearchArticles", raw |-> raw, filters |-> Normalize(raw)]
          /\ resp' = Search(store, Normalize(raw))
          /\ UNCHANGED <<store, tx, seen, loaded>>
    /\ UNCHANGED pool

\* the caller takes the result
Return ==
    /\ req.op # "none"
    /\ ~tx.open
    /\ req' = NoCall
    /\ resp' = NoResult
    /\ seen' = NoRead
    /\ UNCHANGED <<store, tx, loaded>>
    /\ UNCHANGED pool

Next == InsertArticles \/ SearchArticles \/ Return

Spec == Init /\ [][Next]_vars

(***************************************************************************)
(* The store under loads, lookups, statistics and cancellation.  A load    *)
(* runs statement by statement, so that other connections read while its   *)
(* transaction is open; every other call is one step.                      *)
(***************************************************************************)
DataObjects ==
    {Encode(a) : a \in {x \in Articles : x.PMID \in {<<"1">>, <<"1", "0">>}}}
       \cup {[pmid |-> <<"9">>, title |-> <<"B">>], [title |-> <<"c">>]}
Lines == {EmptyLine, OtherText} \cup {ObjectLine(o) : o \in DataObjects}
DataInputs == SeqsUpTo(Lines, MaxLines)
Contexts == {Live} \cup {CancelAfter(k) : k \in 0..MaxCancel}
PmidInputs == {<<>>, <<"1">>, <<"1", "0">>, <<"7">>}
ContextFilters ==
    {Normalize([Query |-> q, Year |-> Nil, Journal |-> <<>>, Author |-> a,
                Page |-> 1, PageSize |-> 0, Sort |-> ""]) :
        q \in {<<>>, <<"B">>}, a \in {<<>>, <<"b">>, <<",">>}}

\* LoadArticles up to the first statement of InsertArticles
LoadArticles ==
    /\ req.op = "none"
    /\ \E data \in DataInputs, ctx \in Contexts :
          LET parsed == parseJSONL(data) IN
          /\ req' = [op |-> "LoadArticles", data |-> data, ctx |-> ctx,
                     articles |-> parsed.articles, before |-> store]
          /\ IF parsed.err
             THEN /\ resp' = [err |-> TRUE, msg |-> "failed to parse JSONL"]
                  /\ tx' = NoTx
             ELSE IF Done(ctx, 1)
             THEN /\ resp' = [err |-> TRUE, msg |-> "failed to begin transaction"]
                  /\ tx' = NoTx
             ELSE IF Done(ctx, 2)
             THEN /\ resp' = [err |-> TRUE, msg |-> "failed to prepare statement"]
                  /\ tx' = NoTx
             ELSE /\ resp' = NoResult
                  /\ tx' = [open |-> TRUE, work |-> store, next |-> 1]
    /\ UNCHANGED <<store, seen, loaded>>
    /\ UNCHANGED pool

\* one pass of the loop of InsertArticles: stmt.ExecContext
ExecContext ==
    /\ tx.open
    /\ tx.next <= Len(req.articles)
    /\ LET r == ExecStmt(tx.work, req.articles[tx.next]) IN
       IF Done(req.ctx, 2 + tx.next) \/ r.err
       THEN /\ resp' = [err |-> TRUE, msg |-> "failed to insert article"]
            /\ tx' = NoTx
       ELSE /\ tx' = [tx EXCEPT !.work = r.tbl, !.next = @ + 1]
            /\ UNCHANGED resp
    /\ UNCHANGED <<store, req, seen, loaded>>
    /\ UNCHANGED pool

\* tx.Commit, or the deferred tx.Rollback when the commit fails
Commit ==
    /\ tx.open
    /\ tx.next > Len(req.articles)
    /\ tx' = NoTx
    /\ IF Done(req.ctx, Len(req.articles) + 3)
       THEN /\ resp' = [err |-> TRUE, msg |-> "failed to commit transaction"]
            /\ UNCHANGED <<store, loaded>>
       ELSE /\ resp' = [err |-> FALSE, msg |-> ""]
            /\ store' = tx.work
            /\ loaded' = Committed(loaded, req.articles)
    /\ UNCHANGED <<req, seen>>
    /\ UNCHANGED pool

\* a query on another connection while the transaction is open
ConcurrentRead ==
    /\ tx.open
    /\ seen' = [taken |-> TRUE, rows |-> Visible(store, tx.work)]
    /\ seen' # seen
    /\ UNCHANGED <<store, req, resp, tx, loaded>>
    /\ UNCHANGED pool

\* ArticleService.GetArticle
LookupArticle ==
    /\ req.op = "none"
    /\ \E pmid \in PmidInputs, ctx \in {Live, CancelAfter(0)} :
          /\ req' = [op |-> "GetArticle", pmid |-> pmid, ctx |-> ctx]
          /\ resp' = GetArticle(store, pmid, ctx)
    /\ UNCHANGED <<store, tx, seen, loaded>>
    /\ UNCHANGED pool

\* GET /v1/articles/{pmid}
HttpGetArticle ==
    /\ req.op = "none"
    /\ \E pmid \in PmidInputs, ctx \in {Live, CancelAfter(0)} :
          /\ req' = [op |-> "HttpGetArticle", pmid |-> pmid, ctx |-> ctx]
          /\ resp' = HandlerGetArticle(store, pmid, ctx)
    /\ UNCHANGED <<store, tx, seen, loaded>>
    /\ UNCHANGED pool

\* SQLiteRepository.GetStats
Stats ==
    /\ req.op = "none"
    /\ \E ctx \in Contexts, journalRows \in TopJournalRows(store) :
          /\ req' = [op |-> "GetStats", ctx |-> ctx, journalRows |-> journalRows]
          /\ resp' = GetStats(store, ctx, journalRows)
    /\ UNCHANGED <<store, tx, seen, loaded>>
    /\ UNCHANGED pool

\* SQLiteRepository.Search under a context
SearchUnderContext ==
    /\ req.op = "none"
    /\ \E f \in ContextFilters, ctx \in Contexts :
          /\ req' = [op |-> "Search", filters |-> f, ctx |-> ctx]
          /\ resp' = SearchContext(store, f, ctx)
    /\ UNCHANGED <<store, tx, seen, loaded>>
    /\ UNCHANGED pool

\* page parameters up to the largest int and one past it
PageValues ==
    { <<>>, <<(<<"2">>)>>,
      <<(<<"1", "0", "0", "0", "0", "0", "0", "0", "0", "0",
           "0", "0", "0", "0", "0", "0", "0", "0", "0">>)>>,
      <<(<<"4", "6", "1", "1", "6", "8", "6", "0", "1", "8",
           "4", "2", "7", "3", "8", "7", "9", "0", "5">>)>>,
      <<(<<"9", "2", "2", "3", "3", "7", "2", "0", "3", "6",
           "8", "5", "4", "7", "7", "5", "8", "0", "7">>)>>,
      <<(<<"9", "2", "2", "3", "3", "7", "2", "0", "3", "6",
           "8", "5", "4", "7", "7", "5", "8", "0", "8">>)>> }
PageSizeValues == {1, 2, DefaultPageSize, MaxPageSize}

\* GET /v1/articles with a page and a page_size: ParseSearchFilters, the
\* normalization of SearchArticles and the store's Search
SearchAtPage ==
    /\ req.op = "none"
    /\ \E f \in ContextFilters, page \in PageValues, size \in PageSizeValues :
          LET g == Normalize([f EXCEPT !.PageSize = size]) IN
          /\ req' = [op |-> "SearchAtPage", filters |-> g, page |-> PageOf(page)]
          /\ resp' = SearchPage(store, g, PageOf(page))
    /\ UNCHANGED <<store, tx, seen, loaded, pool>>

StoreNext ==
    \/ LoadArticles \/ ExecContext \/ Commit \/ ConcurrentRead
    \/ LookupArticle \/ HttpGetArticle \/ Stats \/ SearchUnderContext
    \/ SearchAtPage \/ Return

StoreSpec == Init /\ [][StoreNext]_vars

(***************************************************************************)
(* The statistics over a store of many journals: loads of a corpus with    *)
(* more journals than the top-journals list holds, and GetStats.           *)
(***************************************************************************)
CorpusArticles ==
    { Article(<<"2", "1">>, <<"t">>, <<>>, Nil, <<"A">>, 2019),
      Article(<<"2", "2">>, <<"t">>, <<>>, Nil, <<"A">>, 2021),
      Article(<<"2", "3">>, <<"t">>, <<>>, Nil, <<"B">>, 2021),
      Article(<<"2", "4">>, <<"t">>, <<>>, Nil, <<"C">>, 2021),
      Article(<<"2", "5">>, <<"t">>, <<>>, Nil, <<"D">>, 2024),
      Article(<<"2", "6">>, <<"t">>, <<>>, Nil, <<"E">>, 2024),
      Article(<<"2", "7">>, <<"t">>, <<>>, Nil, <<"F">>, 2024) }

CorpusBatches == SeqsUpTo(CorpusArticles, MaxBatch)

\* SQLiteRepository.InsertArticles on a batch of the corpus
InsertCorpus ==
    /\ req.op = "none"
    /\ \E batch \in CorpusBatches :
          /\ store' = ExecBatch(store, batch)
          /\ req' = [op |-> "InsertArticles", articles |-> batch]
          /\ resp' = [err |-> FALSE]
          /\ loaded' = Committed(loaded, batch)
          /\ UNCHANGED <<tx, seen>>
    /\ UNCHANGED pool

StatsNext == InsertCorpus \/ Stats \/ Return

StatsSpec == Init /\ [][StatsNext]_vars

(***************************************************************************)
(* ParseSearchFilters applied to the query parameters of a request.        *)
(***************************************************************************)
NumberValues ==
    { <<>>, <<(<<>>)>>, <<(<<"7">>)>>, <<(<<"0">>)>>, <<(<<"-", "3">>)>>,
      <<(<<"+", "4">>)>>, <<(<<"x">>)>>, <<(<<"1", "2">>), (<<"9">>)>>,
      <<(<<"1", ".", "5">>)>>,
      <<(<<"9", "9", "9", "9", "9", "9", "9", "9", "9", "9",
           "9", "9", "9", "9", "9", "9", "9", "9", "9", "9">>)>> }
YearValues ==
    { <<>>, <<(<<>>)>>, <<(<<"-", "3">>)>>, <<(<<"x">>)>>, <<(<<"1", "2">>), (<<"9">>)>> }
TextValues == { <<(<<>>)>>, <<(<<"a", " ">>), (<<"b">>)>> }
SortValues == { <<>>, <<"">>, <<"newest", "year_asc">> }

ParamInputs ==
    [q : TextValues, year : YearValues, journal : {<<>>, <<(<<"J">>)>>},
     author : {<<>>, <<(<<"b">>)>>}, page : NumberValues,
     page_size : NumberValues, sort : SortValues]

\* a request whose query parameters are about to be parsed
ParseInit ==
    /\ store = <<>>
    /\ req \in {[op |-> "ParseSearchFilters", queryParams |-> p, parsed |-> FALSE] :
                   p \in ParamInputs}
    /\ resp = NoResult
    /\ tx = NoTx
    /\ seen = NoRead
    /\ loaded = <<>>
    /\ pool = OneConnection(":memory:")

\* Handler.GetArticles, its first statement: service.ParseSearchFilters
Parse ==
    /\ req.op = "ParseSearchFilters"
    /\ ~req.parsed
    /\ req' = [req EXCEPT !.parsed = TRUE]
    /\ resp' = [err |-> FALSE, filters |-> ParseSearchFilters(req.queryParams)]
    /\ UNCHANGED <<store, tx, seen, loaded>>
    /\ UNCHANGED pool

ParseNext == Parse

ParseSpec == ParseInit /\ [][ParseNext]_vars

(***************************************************************************)
(* The server of main: NewSQLiteRepository on the configured path, the     *)
(* startup load, then requests served concurrently.  Each statement runs   *)
(* on a connection of the handle's pool: an idle one when there is one,    *)
(* else one the pool opens.  With the path ":memory:" every connection the *)
(* driver opens is a database of its own, so only the first connection,    *)
(* on which initSchema and the startup load ran, has the articles; with a  *)
(* file path all connections read the one database.  The pool record       *)
(* tells the first connection ("idle", "busy", "closed") from the others,  *)
(* of which it counts the idle and the busy.                               *)
(***************************************************************************)
DbPaths == {":memory:", "/tmp/pubmed.db"}

\* database/sql keeps at most this many idle connections, closing the rest
MaxIdleConns == 2

IdleCount(p) == (IF p.first = "idle" THEN 1 ELSE 0) + p.idle
BusyCount(p) == (IF p.first = "busy" THEN 1 ELSE 0) + p.busy

\* the connections a statement may get
Choices(p) ==
    {c \in {"first"} : p.first = "idle"}
       \cup {c \in {"other"} : p.idle > 0}
       \cup {c \in {"new"} : IdleCount(p) = 0}

Acquire(p, c) ==
    IF c = "first" THEN [p EXCEPT !.first = "busy"]
    ELSE IF c = "other" THEN [p EXCEPT !.idle = @ - 1, !.busy = @ + 1]
    ELSE [p EXCEPT !.busy = @ + 1]

\* a connection goes back to the idle ones, or is closed when they are full
Release(p, c) ==
    IF c = "first"
    THEN [p EXCEPT !.first = IF IdleCount(p) >= MaxIdleConns THEN "closed" ELSE "idle"]
    ELSE [p EXCEPT !.busy = @ - 1,
                   !.idle = IF IdleCount(p) >= MaxIdleConns THEN @ ELSE @ + 1]

\* the articles table of the database a connection is attached to
Attached(p, c, tbl) ==
    IF p.path = ":memory:" /\ c # "first" THEN NoTable ELSE tbl

NoParams ==
    [q |-> <<>>, year |-> <<>>, journal |-> <<>>, author |-> <<>>,
     page |-> <<>>, page_size |-> <<>>, sort |-> <<>>]
ServerParams ==
    { NoParams,
      [NoParams EXCEPT !.q = <<(<<"'">>)>>],
      [NoParams EXCEPT !.author = <<(<<"b">>)>>, !.page = <<(<<"0">>)>>] }
ServerPmids == {<<>>, <<"1">>, <<"7">>}
ServerContexts == {Live, CancelAfter(0)}

ServerInit ==
    /\ store = <<>>
    /\ req = NoCall
    /\ resp = NoResult
    /\ tx = NoTx
    /\ seen = NoRead
    /\ loaded = <<>>
    /\ \E path \in DbPaths : pool = OneConnection(path)

\* main: LoadArticles on the fresh repository, then ListenAndServe
Startup ==
    /\ ~pool.serving
    /\ \E batch \in Batches :
          /\ store' = ExecBatch(store, batch)
          /\ loaded' = Committed(loaded, batch)
    /\ pool' = [pool EXCEPT !.serving = TRUE]
    /\ UNCHANGED <<req, resp, tx, seen>>

\* another request starts a statement and holds its connection
OtherBegins ==
    /\ pool.serving
    /\ BusyCount(pool) < MaxInFlight
    /\ \E c \in Choices(pool) : pool' = Acquire(pool, c)
    /\ UNCHANGED <<store, req, resp, tx, seen, loaded>>

\* another request's statement ends and its connection is released
OtherEnds ==
    /\ \E c \in {"first", "other"} :
          /\ IF c = "first" THEN pool.first = "busy" ELSE pool.busy > 0
          /\ pool' = Release(pool, c)
    /\ UNCHANGED <<store, req, resp, tx, seen, loaded>>

\* GET /v1/articles/{pmid}
ServeArticle ==
    /\ pool.serving
    /\ req.op = "none"
    /\ \E pmid \in ServerPmids, ctx \in ServerContexts, c \in Choices(pool) :
          /\ req' = [op |-> "GET /v1/articles/{pmid}", pmid |-> pmid,
                     ctx |-> ctx, conn |-> c]
          /\ resp' = HandlerGetArticle(Attached(pool, c, store), pmid, ctx)
          /\ pool' = Release(Acquire(pool, c), c)
    /\ UNCHANGED <<store, tx, seen, loaded>>

\* GET /v1/articles
ServeArticles ==
    /\ pool.serving
    /\ req.op = "none"
    /\ \E queryParams \in ServerParams, ctx \in ServerContexts, c \in Choices(pool) :
          /\ req' = [op |-> "GET /v1/articles", queryParams |-> queryParams,
                     ctx |-> ctx, conn |-> c]
          /\ resp' = HandlerGetArticles(Attached(pool, c, store), queryParams, ctx)
          /\ pool' = Release(Acquire(pool, c), c)
    /\ UNCHANGED <<store, tx, seen, loaded>>

\* GET /v1/stats
ServeStats ==
    /\ pool.serving
    /\ req.op = "none"
    /\ \E ctx \in ServerContexts, c \in Choices(pool) :
          LET tbl == Attached(pool, c, store) IN
          \E journalRows \in (IF tbl = NoTable THEN {<<>>} ELSE TopJournalRows(tbl)) :
             /\ req' = [op |-> "GET /v1/stats", ctx |-> ctx, conn |-> c]
             /\ resp' = HandlerGetStats(tbl, ctx, journalRows)
             /\ pool' = Release(Acquire(pool, c), c)
    /\ UNCHANGED <<store, tx, seen, loaded>>

ServerNext ==
    \/ Startup \/ OtherBegins \/ OtherEnds
    \/ ServeArticle \/ ServeArticles \/ ServeStats
    \/ Return

ServerSpec == ServerInit /\ [][ServerNext]_vars

(***************************************************************************)
(* Vocabulary of the properties.                                           *)
(***************************************************************************)
\* s occurs in text as a contiguous run of characters
Contains(text, s) ==
    \E i \in 0..(Len(text) - Len(s)) : SubSeq(text, i + 1, i + Len(s)) = s

\* a SearchArticles call is in progress / has produced a SearchResult
Searching == req.op = "SearchArticles"
Answered == Searching /\ ~resp.err

\* the result holds every matching article on its one page
WholeResult == Answered /\ resp.Page = 1 /\ resp.PageSize >= resp.Total

ItemPmids == {resp.Items[i].PMID : i \in 1..Len(resp.Items)}

\* the stored article with key p, as a lookup would return it
Stored(p) == ScanRow(store[p]).article

OnlyQueryPresent(f) ==
    f.Query # <<>> /\ f.Year = Nil /\ f.Journal = <<>> /\ f.Author = <<>>

(***************************************************************************)
(* C1: the Total of a search result is the number of stored articles that  *)
(* satisfy the store's filter predicate, a number fixed by the store and   *)
(* the query, year, journal and author filters alone: it is the same for   *)
(* every page and page_size, and is not the number of items on the page.   *)
(***************************************************************************)
FilterPredicate(a, f) ==
    /\ f.Query # <<>> =>
          Like(Wrap(ToLower(f.Query)), ToLower(a.Title \o <<" ">> \o a.Abstract))
    /\ f.Year # Nil => a.PubYear \in f.Year
    /\ f.Journal # <<>> => a.Journal = f.Journal
    /\ f.Author # <<>> => Like(Wrap(f.Author), JsonMarshal(a.Authors))

Satisfying(f) == {p \in DOMAIN store : FilterPredicate(Stored(p), f)}

C2_QueryIsSubstringMatch ==
    (WholeResult /\ OnlyQueryPresent(req.filters)) =>
       ItemPmids = {p \in DOMAIN store :
                       Contains(ToLower(Stored(p).Title \o Stored(p).Abstract),
                                ToLower(req.filters.Query))}

(***************************************************************************)
(* C3: an article is in the full result set exactly when it satisfies      *)
(* every filter that is present: an absent filter excludes nothing, a year *)
(* filter requires pub_year to equal it, a journal filter requires journal *)
(* to equal it character for character.                                    *)
(***************************************************************************)
C3_PresentFiltersAreAnded ==
    WholeResult =>
       \A p \in DOMAIN store :
          p \in ItemPmids <=>
             /\ req.filters.Query = <<>> \/
                   Like(Wrap(ToLower(req.filters.Query)), store[p].search_text)
             /\ req.filters.Year = Nil \/ req.filters.Year = {Stored(p).PubYear}
             /\ req.filters.Journal = <<>> \/ Stored(p).Journal = req.filters.Journal
             /\ req.filters.Author = <<>> \/
                   Like(Wrap(req.filters.Author), store[p].authors)

\* a journal filter that differs from a stored journal only in case, with a
\* year filter, leaves out some article and keeps another
C3_Witness ==
    /\ WholeResult
    /\ req.filters.Journal = <<"J">>
    /\ req.filters.Year = {2020}
    /\ req.filters.Query = <<>>
    /\ <<"1", "0">> \in DOMAIN store
    /\ <<"1", "0">> \notin ItemPmids
    /\ <<"2">> \in ItemPmids

(***************************************************************************)
(* C4: under sort=relevance every selected article whose title contains    *)
(* the lower-cased query comes before every selected article whose title   *)
(* does not, and within each group the order is ascending pmid; with an    *)
(* empty query every title contains it, so the order is ascending pmid.    *)
(***************************************************************************)
InTitle(a, f) == Contains(ToLower(a.Title), ToLower(f.Query))

C4_RelevanceTitleFirst ==
    (Answered /\ req.filters.Sort = "relevance") =>
       \A i \in 1..Len(resp.Items) : \A j \in 1..Len(resp.Items) :
          i < j =>
             \/ InTitle(resp.Items[i], req.filters) /\ ~InTitle(resp.Items[j], req.filters)
             \/ /\ InTitle(resp.Items[i], req.filters) = InTitle(resp.Items[j], req.filters)
                /\ TextLess(resp.Items[i].PMID, resp.Items[j].PMID)

(***************************************************************************)
(* C5: under sort=year_desc the items are in non-increasing pub_year       *)
(* order, under sort=year_asc in non-decreasing pub_year order, and items  *)
(* of the same pub_year are in strictly ascending pmid order, so no two    *)
(* items are left unordered.                                               *)
(***************************************************************************)
C5_YearOrderWithPmidTieBreak ==
    Answered =>
       \A i \in 1..Len(resp.Items) : \A j \in 1..Len(resp.Items) :
          i < j =>
             /\ req.filters.Sort = "year_desc" =>
                   \/ resp.Items[i].PubYear > resp.Items[j].PubYear
                   \/ /\ resp.Items[i].PubYear = resp.Items[j].PubYear
                      /\ TextLess(resp.Items[i].PMID, resp.Items[j].PMID)
             /\ req.filters.Sort = "year_asc" =>
                   \/ resp.Items[i].PubYear < resp.Items[j].PubYear
                   \/ /\ resp.Items[i].PubYear = resp.Items[j].PubYear
                      /\ TextLess(resp.Items[i].PMID, resp.Items[j].PMID)

\* four items under year_desc: the later year first, ties in pmid order,
\* which is not the order of the pmids alone
C5_Witness ==
    /\ Answered
    /\ req.filters.Sort = "year_desc"
    /\ Len(resp.Items) = 4
    /\ resp.Items[1].PubYear = resp.Items[2].PubYear
    /\ resp.Items[2].PubYear > resp.Items[3].PubYear
    /\ TextLess(resp.Items[3].PMID, resp.Items[2].PMID)

(***************************************************************************)
(* C6: for the filters of a search and its page_size P, the Items of pages *)
(* 1..ceil(N/P), one after the other, are the matching articles in sort    *)
(* order, each exactly once.                                               *)
(***************************************************************************)
NumPages(n, p) == (n + p - 1) \div p

RECURSIVE ConcatPages(_, _, _)
ConcatPages(f, k, n) ==
    IF k > n THEN <<>>
    ELSE Search(store, [f EXCEPT !.Page = k]).Items \o ConcatPages(f, k + 1, n)

SortedMatching(f) ==
    LET rows == OrderRows(MatchingRows(store, f), f)
    IN [i \in 1..Len(rows) |-> ScanRow(rows[i]).article]

C6_PagesCoverResultOnce ==
    Answered =>
       LET all == ConcatPages(req.filters, 1,
                              NumPages(resp.Total, req.filters.PageSize))
       IN /\ all = SortedMatching(req.filters)
          /\ Len(all) = resp.Total
          /\ \A i \in 1..Len(all) : \A j \in 1..Len(all) :
                i # j => all[i].PMID # all[j].PMID
          /\ {all[i].PMID : i \in 1..Len(all)} = Satisfying(req.filters)

\* the second of two pages of a three-article result
C6_Witness ==
    /\ Answered
    /\ resp.Total = 3
    /\ req.filters.PageSize = 2
    /\ req.filters.Page = 2
    /\ Len(resp.Items) = 1

(***************************************************************************)
(* C7: SearchArticles returns a SearchResult and no error, whatever the    *)
(* filters hold.                                                           *)
(***************************************************************************)
C7_SearchNeverErrors == Searching => ~resp.err

(***************************************************************************)
(* C8: the filters the store receives have page 1 when the caller's page   *)
(* is below 1 and the caller's page otherwise; page_size 10 when the       *)
(* caller's is below 1, 50 when it is above 50, the caller's otherwise.    *)
(***************************************************************************)
C8_PaginationNormalized ==
    Searching =>
       /\ req.filters.Page = (IF req.raw.Page < 1 THEN 1 ELSE req.raw.Page)
       /\ req.filters.PageSize =
             (IF req.raw.PageSize < 1 THEN 10
              ELSE IF req.raw.PageSize > 50 THEN 50 ELSE req.raw.PageSize)
       /\ req.filters.Page >= 1
       /\ req.filters.PageSize \in 1..50

\* a page below 1 and a page_size above 50, both corrected
C8_Witness ==
    /\ Searching
    /\ req.raw.Page < 1
    /\ req.raw.PageSize > 50
    /\ req.filters.Page = 1
    /\ req.filters.PageSize = 50

(***************************************************************************)
(* C9: the sort the store receives is the caller's when that is relevance, *)
(* year_desc or year_asc, and relevance for the empty string and for every *)
(* other string.                                                           *)
(***************************************************************************)
C9_SortNormalized ==
    Searching =>
       /\ req.filters.Sort \in {"relevance", "year_desc", "year_asc"}
       /\ req.raw.Sort \in {"relevance", "year_desc", "year_asc"} =>
             req.filters.Sort = req.raw.Sort
       /\ req.raw.Sort \notin {"relevance", "year_desc", "year_asc"} =>
             req.filters.Sort = "relevance"

\* an unrecognized sort, replaced by relevance
C9_Witness ==
    /\ Searching
    /\ req.raw.Sort = "newest"
    /\ req.filters.Sort = "relevance"

(***************************************************************************)
(* C10: the query, year, journal and author the store receives are the     *)
(* caller's, character for character.                                      *)
(***************************************************************************)
C10_OtherFieldsPassThrough ==
    Searching =>
       /\ req.filters.Query = req.raw.Query
       /\ req.filters.Year = req.raw.Year
       /\ req.filters.Journal = req.raw.Journal
       /\ req.filters.Author = req.raw.Author

\* page, page_size and sort all corrected while an upper-case query and
\* the other filters reach the store as given
C10_Witness ==
    /\ Searching
    /\ req.raw.Query = <<"B">>
    /\ req.raw.Journal = <<"J">>
    /\ req.raw.Year = {2020}
    /\ req.raw.Author = <<"b">>
    /\ req.filters.Query = <<"B">>
    /\ req.filters.Page # req.raw.Page
    /\ req.filters.PageSize # req.raw.PageSize
    /\ req.filters.Sort # req.raw.Sort

(***************************************************************************)
(* C11: when the requested page begins at or past the end of the result    *)
(* set, (page-1)*page_size >= the number of matching articles, a search    *)
(* whose filters the store can answer at all (page 1 of the same filters   *)
(* returns a result) returns no error, zero items, and the full number of  *)
(* matching articles as Total.                                             *)
(***************************************************************************)
PastTheEnd(f) == (f.Page - 1) * f.PageSize >= Cardinality(Satisfying(f))

LookingUp == req.op = "GetArticle"

C12_LookupByPmid ==
    (LookingUp /\ req.pmid # <<>> /\ req.ctx = Live) =>
       IF req.pmid \in DOMAIN loaded
       THEN ~resp.err /\ resp.article = {loaded[req.pmid]}
       ELSE resp.err /\ resp.msg = "article not found" /\ resp.article = Nil

C12_Witness ==
    /\ LookingUp
    /\ req.pmid = <<"1", "0">>
    /\ req.ctx = Live
    /\ ~resp.err
    /\ \E a \in resp.article : a.PMID = <<"1", "0">> /\ a.Title = <<"A", "b", "c">>

(***************************************************************************)
(* C13.  GetArticle with the empty pmid fails with "pmid is required",     *)
(* returns no article and does not call the store; the handler answers an  *)
(* empty pmid with status 400 and does not call the service.               *)
(***************************************************************************)
C13_EmptyPmidRejected ==
    /\ (LookingUp /\ req.pmid = <<>>) =>
          /\ resp.err
          /\ resp.msg = "pmid is required"
          /\ resp.article = Nil
          /\ resp.repoCalls = 0
    /\ (req.op = "HttpGetArticle" /\ req.pmid = <<>>) =>
          /\ resp.status = 400
          /\ resp.serviceCalls = 0
          /\ resp.repoCalls = 0

C13_Witness ==
    /\ LookingUp
    /\ req.pmid = <<>>
    /\ req.ctx = Live
    /\ store # <<>>
    /\ resp.err
    /\ resp.repoCalls = 0

(***************************************************************************)
(* C14.  "article not found" is reported only when no stored article has   *)
(* the pmid, at the service and at the HTTP boundary: a lookup that fails  *)
(* for another reason (here, a cancelled context) is reported otherwise.   *)
(***************************************************************************)
C14_NotFoundOnlyWhenAbsent ==
    /\ (LookingUp /\ resp.err /\ resp.msg = "article not found") =>
          req.pmid \notin DOMAIN store
    /\ (req.op = "HttpGetArticle" /\ resp.error = "article not found") =>
          req.pmid \notin DOMAIN store

(***************************************************************************)
(* C15.  A call whose context is cancelled before it ends returns an       *)
(* error: a result returned without error is the whole result, for Search, *)
(* for the lookup and for GetStats.                                        *)
(***************************************************************************)
C15_CancelledNeverPartial ==
    /\ (req.op = "GetStats" /\ ~resp.err) =>
          /\ resp.TopJournals = req.journalRows
          /\ resp.YearHistogram = [y \in YearsOf(store) |-> YearCount(store, y)]
    /\ (req.op = "Search" /\ ~resp.err) => resp = Search(store, req.filters)
    /\ (LookingUp /\ ~resp.err) =>
          resp.article = {ScanRow(store[req.pmid]).article}

(***************************************************************************)
(* C16.  A load is all-or-nothing: while it runs, and after it has         *)
(* returned an error (a cancellation part-way included), the table is what *)
(* it was before the load; a reader on another connection sees the table   *)
(* of before the load or the table with the whole load, nothing between.   *)
(***************************************************************************)
Loading == req.op = "LoadArticles"
LoadEnded == Loading /\ ~tx.open

C16_LoadAllOrNothing ==
    /\ (Loading /\ (tx.open \/ resp.err)) => store = req.before
    /\ (Loading /\ seen.taken) =>
          \/ seen.rows = req.before
          \/ seen.rows = ExecBatch(req.before, req.articles)

C16_Witness ==
    /\ LoadEnded
    /\ resp.err
    /\ req.ctx = CancelAfter(3)
    /\ Len(req.articles) = 2
    /\ req.articles[1].PMID \notin DOMAIN req.before
    /\ seen.taken
    /\ store = req.before

(***************************************************************************)
(* C17.  Loading is idempotent: after a load has succeeded, loading the    *)
(* same data again succeeds and leaves the table, and so the statistics,   *)
(* as they are.                                                            *)
(***************************************************************************)
C17_LoadIdempotent ==
    (LoadEnded /\ ~resp.err) =>
       LET again == LoadArticlesResult(store, req.data, Live) IN
       /\ ~again.err
       /\ again.tbl = store
       /\ TopJournalRows(again.tbl) = TopJournalRows(store)
       /\ YearRows(again.tbl, YearsOf(again.tbl)) = YearRows(store, YearsOf(store))

C17_Witness ==
    /\ LoadEnded
    /\ ~resp.err
    /\ Len(req.articles) = 2
    /\ req.articles[1].PMID # req.articles[2].PMID
    /\ Cardinality(DOMAIN store) = 3

(***************************************************************************)
(* C18.  The table holds at most one article per pmid, the one of the most *)
(* recently processed record with that pmid, and as many articles as       *)
(* distinct pmids were ever loaded.                                        *)
(***************************************************************************)
C18_LastRecordWins ==
    /\ DOMAIN store = DOMAIN loaded
    /\ \A p \in DOMAIN store : store[p] = Row(loaded[p])
    /\ \A p \in DOMAIN store : store[p].pmid = p

C18_Witness ==
    /\ LoadEnded
    /\ ~resp.err
    /\ Len(req.articles) = 2
    /\ req.articles[1].PMID = req.articles[2].PMID
    /\ req.articles[1] # req.articles[2]
    /\ req.articles[1].PMID \in DOMAIN req.before
    /\ store[req.articles[2].PMID] = Row(req.articles[2])
    /\ Cardinality(DOMAIN store) = Cardinality(DOMAIN req.before)

(***************************************************************************)
(* C19.  Data with a non-empty line that does not decode makes             *)
(* LoadArticles fail with nothing inserted: no transaction is opened and   *)
(* the table stays as it was.                                              *)
(***************************************************************************)
Undecodable(data) == \E i \in 1..Len(data) : data[i].kind = "text"

C19_UndecodableLineFailsLoad ==
    (Loading /\ Undecodable(req.data)) =>
       /\ resp.err
       /\ ~tx.open
       /\ req.articles = <<>>
       /\ store = req.before

C19_Witness ==
    /\ Loading
    /\ req.ctx = Live
    /\ Len(req.data) = 2
    /\ req.data[1].kind = "object"
    /\ req.data[2].kind = "text"
    /\ resp.err
    /\ store = req.before

(***************************************************************************)
(* C20.  A record that lacks one of pmid, title, abstract, authors,        *)
(* journal, pub_year, mesh_terms is rejected at load time: a load whose    *)
(* data has such a record does not succeed.                                *)
(***************************************************************************)
RequiredKeys ==
    {"pmid", "title", "abstract", "authors", "journal", "pub_year", "mesh_terms"}

LacksRequired(data) ==
    \E i \in 1..Len(data) :
       /\ data[i].kind = "object"
       /\ ~(RequiredKeys \subseteq DOMAIN data[i].fields)

C20_RequiredFieldsPresent ==
    (LoadEnded /\ LacksRequired(req.data)) => resp.err

(***************************************************************************)
(* C21.  The top journals GetStats returns are at most 5 entries, each a   *)
(* distinct journal with its exact article count, in non-increasing count  *)
(* order, and no journal left out has more articles than the last one      *)
(* listed; on an empty store GetStats succeeds with no entries.            *)
(***************************************************************************)
GotStats == req.op = "GetStats" /\ ~resp.err
ArticlesOf(j) == {p \in DOMAIN store : store[p].journal = j}

C21_TopJournals ==
    /\ GotStats =>
          LET top == resp.TopJournals
              listed == {top[i].Journal : i \in 1..Len(top)}
          IN /\ Len(top) <= TopJournalsLimit
             /\ \A i \in 1..Len(top) : \A j \in 1..Len(top) :
                   i # j => top[i].Journal # top[j].Journal
             /\ \A i \in 1..Len(top) :
                   /\ top[i].Count = Cardinality(ArticlesOf(top[i].Journal))
                   /\ top[i].Count >= 1
             /\ \A i \in 1..Len(top) : \A j \in 1..Len(top) :
                   i < j => top[i].Count >= top[j].Count
             /\ \A p \in DOMAIN store :
                   store[p].journal \notin listed =>
                      /\ Len(top) = TopJournalsLimit
                      /\ Cardinality(ArticlesOf(store[p].journal))
                            <= top[Len(top)].Count
    /\ (req.op = "GetStats" /\ req.ctx = Live /\ store = <<>>) =>
          /\ ~resp.err
          /\ resp.TopJournals = <<>>

C21_Witness ==
    /\ GotStats
    /\ Cardinality({store[p].journal : p \in DOMAIN store}) = 6
    /\ Len(resp.TopJournals) = 5
    /\ resp.TopJournals[1] = [Journal |-> <<"A">>, Count |-> 2]
    /\ resp.TopJournals[5].Count = 1

(***************************************************************************)
(* C22.  The year histogram GetStats returns has a key for exactly the     *)
(* pub_year values of the stored articles, each mapped to the number of    *)
(* stored articles of that year, and its counts add up to the number of    *)
(* stored articles.                                                        *)
(***************************************************************************)
RECURSIVE SumOver(_, _)
SumOver(h, keys) ==
    IF keys = {} THEN 0
    ELSE LET y == CHOOSE m \in keys : TRUE
         IN h[y] + SumOver(h, keys \ {y})

C22_YearHistogramExact ==
    GotStats =>
       LET h == resp.YearHistogram IN
       /\ DOMAIN h = {store[p].pub_year : p \in DOMAIN store}
       /\ \A y \in DOMAIN h :
             h[y] = Cardinality({p \in DOMAIN store : store[p].pub_year = y})
       /\ SumOver(h, DOMAIN h) = Cardinality(DOMAIN store)

(***************************************************************************)
(* C23.  With an author filter present (and no other filter), Search       *)
(* selects exactly the stored articles of which at least one author name   *)
(* contains the filter string as a substring.                              *)
(***************************************************************************)
NamesOf(a) == IF a.Authors = Nil THEN {}
              ELSE UNION {{s[i] : i \in 1..Len(s)} : s \in a.Authors}

ByAuthor(author) ==
    {p \in DOMAIN store : \E name \in NamesOf(Stored(p)) : Contains(name, author)}

C23_AuthorMatchesOneName ==
    (/\ req.op = "Search"
     /\ ~resp.err
     /\ req.filters.Author # <<>>
     /\ req.filters.Query = <<>>) =>
       /\ resp.Total = Cardinality(ByAuthor(req.filters.Author))
       /\ {resp.Items[i].PMID : i \in 1..Len(resp.Items)} = ByAuthor(req.filters.Author)

(***************************************************************************)
(* C24.  ParseSearchFilters never rejects its input.  A year, page or      *)
(* page_size that is missing, empty or not an integer counts as absent     *)
(* (year unset, page 1, page_size 10); a page or page_size that reads as   *)
(* zero or less falls back to the default too; only the first value of a   *)
(* parameter counts; a non-empty q, journal, author or sort is copied.     *)
(***************************************************************************)
Parsed == req.op = "ParseSearchFilters" /\ req.parsed

\* the first value of a parameter, the empty text when it has none
FirstOf(values) == IF values = <<>> THEN <<>> ELSE values[1]

\* the integers a text spells: sign, then digits
Magnitude(s) == IF s # <<>> /\ s[1] \in {"+", "-"} THEN SubSeq(s, 2, Len(s)) ELSE s

Spells(s, n) ==
    LET m == Magnitude(s)
        digit(c) == IF c = "0" THEN 0 ELSE IF c = "1" THEN 1 ELSE IF c = "2" THEN 2
                    ELSE IF c = "3" THEN 3 ELSE IF c = "4" THEN 4
                    ELSE IF c = "5" THEN 5 ELSE IF c = "6" THEN 6
                    ELSE IF c = "7" THEN 7 ELSE IF c = "8" THEN 8
                    ELSE IF c = "9" THEN 9 ELSE -1000
        abs == IF Len(m) = 1 THEN digit(m[1])
               ELSE IF Len(m) = 2 THEN 10 * digit(m[1]) + digit(m[2])
               ELSE -1000
    IN /\ Len(m) \in 1..2
       /\ abs >= 0
       /\ n = IF s[1] = "-" THEN 0 - abs ELSE abs

Readings(s) == {n \in -99..99 : Spells(s, n)}

C24_ParseNeverRejects ==
    Parsed =>
       LET p == req.queryParams
           f == resp.filters
       IN /\ ~resp.err
          /\ f.Year = Readings(FirstOf(p.year))
          /\ f.Page = IF \E n \in Readings(FirstOf(p.page)) : n > 0
                      THEN CHOOSE n \in Readings(FirstOf(p.page)) : TRUE
                      ELSE 1
          /\ f.PageSize = IF \E n \in Readings(FirstOf(p.page_size)) : n > 0
                          THEN CHOOSE n \in Readings(FirstOf(p.page_size)) : TRUE
                          ELSE 10
          /\ f.Query = FirstOf(p.q)
          /\ f.Journal = FirstOf(p.journal)
          /\ f.Author = FirstOf(p.author)
          /\ (p.sort # <<>> /\ p.sort[1] # "") => f.Sort = p.sort[1]

C24_Witness ==
    /\ Parsed
    /\ req.queryParams.year = <<(<<"x">>)>>
    /\ req.queryParams.page = <<(<<"0">>)>>
    /\ req.queryParams.page_size = <<(<<"1", "2">>), (<<"9">>)>>
    /\ req.queryParams.sort = <<"newest", "year_asc">>
    /\ resp.filters.Year = Nil
    /\ resp.filters.Page = 1
    /\ resp.filters.PageSize = 12
    /\ resp.filters.Sort = "newest"

(***************************************************************************)
(* C25.  The result of SearchArticles echoes the normalized pagination,    *)
(* not the caller's raw values, and its Items and Total are those of the   *)
(* store's Search on the normalized filters.                               *)
(***************************************************************************)
C25_ResultEchoesNormalized ==
    Answered =>
       /\ resp.Page = (IF req.raw.Page < 1 THEN 1 ELSE req.raw.Page)
       /\ resp.PageSize =
             (IF req.raw.PageSize < 1 THEN 10
              ELSE IF req.raw.PageSize > 50 THEN 50 ELSE req.raw.PageSize)
       /\ LET fromStore == Search(store, req.filters)
          IN resp.Items = fromStore.Items /\ resp.Total = fromStore.Total

C25_Witness ==
    /\ Answered
    /\ req.raw.Page = 0
    /\ req.raw.PageSize = MaxPageSize + 1
    /\ resp.Page = 1
    /\ resp.PageSize = 50
    /\ Len(resp.Items) = 3
    /\ resp.Total = 3

(***************************************************************************)
(* C26.  The body of an HTTP error response does not depend on the error   *)
(* behind it: for an endpoint and a status it is one fixed message,        *)
(* whatever failed underneath (a statement the engine rejects, a missing   *)
(* table, a cancelled context, a pmid not stored) and whatever the pmid.   *)
(***************************************************************************)
Endpoints == {"GET /v1/articles/{pmid}", "GET /v1/articles", "GET /v1/stats"}
Served == req.op \in Endpoints
Refused == Served /\ resp.status >= 400

GenericMessage(endpoint, status) ==
    IF endpoint = "GET /v1/articles/{pmid}"
    THEN (IF status = 400 THEN "pmid is required" ELSE "article not found")
    ELSE IF endpoint = "GET /v1/articles" THEN "failed to search articles"
    ELSE "failed to get stats"

C26_ErrorBodyIsGeneric ==
    Refused =>
       /\ resp.body = Nil
       /\ resp.error = GenericMessage(req.op, resp.status)

C26_Witness ==
    /\ Refused
    /\ req.op = "GET /v1/articles"
    /\ req.conn = "first"
    /\ req.ctx = Live
    /\ resp.status = 500
    /\ resp.cause = "syntax error"
    /\ resp.error = "failed to search articles"

(***************************************************************************)
(* C27.  Once the startup load has succeeded, every read under a live      *)
(* context observes all the loaded articles, whichever connection of the   *)
(* handle serves it and whatever else is in flight, the default in-memory  *)
(* path included.                                                          *)
(***************************************************************************)
C27_ReadsSeeTheLoad ==
    (Served /\ pool.serving /\ req.ctx = Live) =>
       /\ (req.op = "GET /v1/articles/{pmid}" /\ req.pmid \in DOMAIN loaded) =>
             resp.status = 200 /\ resp.body = {loaded[req.pmid]}
       /\ (req.op = "GET /v1/articles" /\ req.queryParams = NoParams) =>
             /\ resp.status = 200
             /\ \A r \in resp.body : r.Total = Cardinality(DOMAIN loaded)
       /\ req.op = "GET /v1/stats" =>
             /\ resp.status = 200
             /\ \A r \in resp.body :
                   DOMAIN r.YearHistogram = {loaded[p].PubYear : p \in DOMAIN loaded}

\* the exact offset skips every row of a count of total
SkipsEveryRow(exact, total) == (\E i \in 2..Len(exact) : exact[i] # 0) \/ exact[1] >= total

\* C28: for every positive page and every page_size from 1 to 50 the offset
\* (page - 1) * page_size is the exact, non-negative product, without
\* wrap-around, so a page past the last row of the matches is empty and
\* never holds the rows of an earlier page.
C28_OffsetNeverWraps ==
    (req.op = "SearchAtPage" /\ ~resp.err) =>
        LET exact == MulAdd(Sub1(req.page), req.filters.PageSize, 0) IN
        /\ Fits(exact)
        /\ Offset64(req.page, req.filters.PageSize) = Wrap64(exact)
        /\ SkipsEveryRow(exact, resp.Total) => resp.Items = <<>>

(***************************************************************************)
(* C29.  Load followed by lookup is a round trip: after a successful load  *)
(* containing an article, with no later record of the same pmid,           *)
(* GetArticle of its pmid returns an article whose pmid, title, abstract,  *)
(* journal, pub_year and doi are the article's and whose authors and       *)
(* mesh_terms hold the same strings in the same order, whether the list    *)
(* is filled, empty or absent.                                             *)
(***************************************************************************)
Strings(slice) == IF slice = Nil THEN <<>> ELSE CHOOSE e \in slice : TRUE

SameArticle(a, b) ==
    /\ b.PMID = a.PMID /\ b.Title = a.Title /\ b.Abstract = a.Abstract
    /\ b.Journal = a.Journal /\ b.PubYear = a.PubYear /\ b.DOI = a.DOI
    /\ Strings(b.Authors) = Strings(a.Authors)
    /\ Strings(b.MeshTerms) = Strings(a.MeshTerms)

C29_LoadLookupRoundTrip ==
    \A pmid \in DOMAIN loaded :
       (LookingUp /\ req.pmid = pmid /\ req.ctx = Live) =>
          /\ ~resp.err
          /\ \E b \in resp.article : SameArticle(loaded[pmid], b)

====
